---------------------------- MODULE Spec2Model ----------------------------
(***************************************************************************)
(* A model of rSamaei/Websocket_httpServer: the promise-based TCP adapter  *)
(* (soInit/soRead/soWrite), the dynamic buffer, and the two connection     *)
(* drivers: the HTTP driver of src/httpServer.ts and the line-echo driver  *)
(* of src/server.ts.                                                       *)
(*                                                                         *)
(* One action is one turn of the JavaScript event loop: a socket event     *)
(* handler, or the connection task running from the settlement of the      *)
(* promise it awaits to its next await.  Bytes are one-character strings.  *)
(***************************************************************************)
EXTENDS Integers, Sequences, FiniteSets, TLC

(***************************************************************************)
(* Bounds of the model.                                                    *)
(***************************************************************************)
\* the largest declared length the body-reader harness draws
MaxBody == 3

(***************************************************************************)
(* Program constants.                                                      *)
(***************************************************************************)
\* httpServer.ts:197  const kMaxHeaderLen = 1024 * 8
kMaxHeaderLen == 8192

\* httpServer.ts:120  Math.max(buf.data.length, 32)
kMinCap == 32

NULL == "null"
\* the byte Buffer.alloc fills a fresh backing array with
NUL == "nul"
CR == "\r"
LF == "\n"
SP == " "
CRLF == <<CR, LF>>

\* F applied to the value of v, which is worked out once however often F
\* uses it
With(v, F(_)) == CHOOSE r \in { F(x) : x \in {v} } : TRUE

Min(a, b) == IF a < b THEN a ELSE b
Max(a, b) == IF a > b THEN a ELSE b

(***************************************************************************)
(* Buffer.indexOf: the 0-based index of the first occurrence of pat in s,  *)
(* or -1.                                                                  *)
(***************************************************************************)
IndexOf(s, pat) ==
    LET hits == {i \in 1..(Len(s) - Len(pat) + 1) :
                    SubSeq(s, i, i + Len(pat) - 1) = pat}
    IN  IF hits = {} THEN -1
        ELSE (CHOOSE i \in hits : \A j \in hits : i <= j) - 1

(***************************************************************************)
(* DynBuf (httpServer.ts:19-23): data is the backing array, length the     *)
(* number of unread bytes at its front.                                    *)
(***************************************************************************)
EmptyBuf == [data |-> << >>, length |-> 0]

\* the unread region buf.data.subarray(0, buf.length)
Unread(buf) == SubSeq(buf.data, 1, Min(buf.length, Len(buf.data)))

RECURSIVE GrowCap(_, _)
GrowCap(cap, newLen) == IF cap < newLen THEN GrowCap(cap * 2, newLen) ELSE cap

\* Buffer.copy(target, targetStart, 0): as many bytes of src as fit
CopyInto(target, src, at) ==
    [i \in 1..Len(target) |->
        IF i > at /\ i <= at + Len(src) THEN src[i - at] ELSE target[i]]

\* the growth without the copy of line 124
grownBlank(buf, newLen) ==
    With(GrowCap(Max(Len(buf.data), kMinCap), newLen),
         LAMBDA cap : [i \in 1..cap |-> NUL])

\* httpServer.ts:119-125: the backing array after the growth
grown(buf, newLen) ==
    With(GrowCap(Max(Len(buf.data), kMinCap), newLen),
         LAMBDA cap : With([i \in 1..cap |-> NUL],
                           LAMBDA fresh : CopyInto(fresh, buf.data, 0)))

\* httpServer.ts:117-129, given newLen
pushTo(buf, data, newLen) ==
    With(IF buf.length < newLen THEN grown(buf, newLen) ELSE buf.data,
         LAMBDA base : [data   |-> CopyInto(base, data, buf.length),
                        length |-> newLen])

bufPush(buf, data) ==
    With(buf.length + Len(data), LAMBDA newLen : pushTo(buf, data, newLen))

\* Buffer.copyWithin(0, len, buf.length), then buf.length -= len
bufPop(buf, len) ==
    [data   |-> [i \in 1..Len(buf.data) |->
                    IF i <= buf.length - len THEN buf.data[i + len]
                    ELSE buf.data[i]],
     length |-> buf.length - len]

(***************************************************************************)
(* Byte strings the source spells out.                                     *)
(***************************************************************************)
GET == <<"G", "E", "T">>
HEAD == <<"H", "E", "A", "D">>
POST == <<"P", "O", "S", "T">>
UriEcho == <<"/", "e", "c", "h", "o">>
UriRoot == <<"/">>
HttpSlash == <<"H", "T", "T", "P", "/">>
V10 == <<"1", ".", "0">>
V11 == <<"1", ".", "1">>
HostX == <<"H", "o", "s", "t", ":", SP, "x">>
HostBad == <<"H", "o", "s", "t">>
CLen2 == <<"C", "o", "n", "t", "e", "n", "t", "-", "L", "e", "n", "g", "t", "h", ":", SP, "2">>
HelloWorld == <<"h", "e", "l", "l", "o", SP, "w", "o", "r", "l", "d", ".", LF>>

\* Buffer.from(s): the bytes of an error message
Bytes(s) ==
    CASE s = "bad field" -> <<"b", "a", "d", SP, "f", "i", "e", "l", "d">>
      [] s = "Unexpected EOF" -> <<"U", "n", "e", "x", "p", "e", "c", "t", "e", "d", SP, "E", "O", "F">>
      [] s = "header is too large" -> <<"h", "e", "a", "d", "e", "r", SP, "i", "s", SP, "t", "o", "o", SP, "l", "a", "r", "g", "e">>
      [] s = "bad Content-Length" -> <<"b", "a", "d", SP, "C", "o", "n", "t", "e", "n", "t", "-", "L", "e", "n", "g", "t", "h">>
      [] s = "HTTP body not allowed" -> <<"H", "T", "T", "P", SP, "b", "o", "d", "y", SP, "n", "o", "t", SP, "a", "l", "l", "o", "w", "e", "d">>
      [] s = "TODO" -> <<"T", "O", "D", "O">>
      [] s = "bad request line" -> <<"b", "a", "d", SP, "r", "e", "q", "u", "e", "s", "t", SP, "l", "i", "n", "e">>
      [] OTHER -> <<"?">>

(***************************************************************************)
(* Exceptions.  An HTTPError object has the properties its constructor     *)
(* sets (httpServer.ts:364-371): name, statusCode and message.  It has no  *)
(* property named code.                                                    *)
(***************************************************************************)
HTTPError(statusCode, message) ==
    [name |-> "HTTPError", statusCode |-> statusCode, message |-> message]

Error(message) == [name |-> "Error", message |-> message]

\* a property read obj.key: undefined when the object has no such property
Prop(obj, key) == IF key \in DOMAIN obj THEN obj[key] ELSE "undefined"

Thrown(exc) == [kind |-> "throw", exc |-> exc]

(***************************************************************************)
(* The request parser.  splitLines, parseRequestLine and validateHeader    *)
(* are called by parseHTTPReq but defined nowhere in the source: they      *)
(* follow the design document (section 4.4).                               *)
(***************************************************************************)
\* the CRLF-terminated lines of data, idx being IndexOf(data, CRLF)
RECURSIVE linesFrom(_, _)
linesFrom(data, idx) ==
    IF idx < 0 THEN (IF data = << >> THEN << >> ELSE <<data>>)
    ELSE <<SubSeq(data, 1, idx)>>
         \o With(SubSeq(data, idx + 3, Len(data)),
                 LAMBDA rest : With(IndexOf(rest, CRLF),
                                    LAMBDA i : linesFrom(rest, i)))

splitLines(data) ==
    With(IndexOf(data, CRLF), LAMBDA idx : linesFrom(data, idx))

\* the parts of line between single spaces, idx being IndexOf(line, <<SP>>)
RECURSIVE partsFrom(_, _)
partsFrom(line, idx) ==
    IF idx < 0 THEN <<line>>
    ELSE <<SubSeq(line, 1, idx)>>
         \o With(SubSeq(line, idx + 2, Len(line)),
                 LAMBDA rest : With(IndexOf(rest, <<SP>>),
                                    LAMBDA i : partsFrom(rest, i)))

\* 'METHOD SP TARGET SP HTTP/VERSION', given its parts
requestLineOf(parts) ==
    IF Len(parts) # 3 THEN Thrown(HTTPError(400, "bad request line"))
    ELSE IF parts[1] = << >> \/ parts[2] = << >>
            \/ Len(parts[3]) <= Len(HttpSlash)
            \/ SubSeq(parts[3], 1, Len(HttpSlash)) # HttpSlash
    THEN Thrown(HTTPError(400, "bad request line"))
    ELSE [kind    |-> "ok",
          method  |-> parts[1],
          uri     |-> parts[2],
          version |-> SubSeq(parts[3], Len(HttpSlash) + 1, Len(parts[3]))]

parseRequestLine(line) ==
    With(With(IndexOf(line, <<SP>>), LAMBDA idx : partsFrom(line, idx)),
         requestLineOf)

\* a field line has a non-empty name without control characters, then ':'
nameEndsAt(h, c) == c > 0 /\ \A i \in 1..c : h[i] \notin {CR, LF, NUL}

validateHeader(h) == With(IndexOf(h, <<":">>), LAMBDA c : nameEndsAt(h, c))

\* httpServer.ts:221-234, rl being the parsed request line
parseFields(lines, rl) ==
    IF rl.kind = "throw" THEN rl
    ELSE IF \E i \in 2..(Len(lines) - 1) : ~validateHeader(lines[i])
    THEN Thrown(HTTPError(400, "bad field"))
    ELSE [kind |-> "msg",
          msg  |-> [method  |-> rl.method, uri |-> rl.uri,
                    version |-> rl.version,
                    headers |-> SubSeq(lines, 2, Len(lines) - 1)]]

\* httpServer.ts:218-220, lines being splitLines(data)
parseLines(lines) ==
    With(parseRequestLine(lines[1]), LAMBDA rl : parseFields(lines, rl))

\* httpServer.ts:216-235
parseHTTPReq(data) == With(splitLines(data), parseLines)

(***************************************************************************)
(* cutMessage (httpServer.ts:200-213): parse and remove one header block   *)
(* from the front of the buffer.                                           *)
(***************************************************************************)
\* httpServer.ts:210-212, p being the parsed header block
cutParsed(buf, idx, p) ==
    IF p.kind = "throw" THEN p
    ELSE [kind |-> "msg", msg |-> p.msg, buf |-> bufPop(buf, idx + 4),
          raw |-> SubSeq(buf.data, 1, idx + 4)]

\* cutAt with > for the >= of line 204
cutAtOverLimit(buf, idx) ==
    IF idx < 0
    THEN IF buf.length > kMaxHeaderLen
         THEN Thrown(HTTPError(413, "header is too large"))
         ELSE [kind |-> "null"]
    ELSE With(parseHTTPReq(SubSeq(buf.data, 1, idx + 4)),
              LAMBDA p : cutParsed(buf, idx, p))

\* httpServer.ts:203-212, idx being the index of the terminator
cutAt(buf, idx) ==
    IF idx < 0
    THEN IF buf.length >= kMaxHeaderLen
         THEN Thrown(HTTPError(413, "header is too large"))
         ELSE [kind |-> "null"]
    ELSE With(parseHTTPReq(SubSeq(buf.data, 1, idx + 4)),
              LAMBDA p : cutParsed(buf, idx, p))

cutMessage(buf) ==
    With(IndexOf(Unread(buf), <<CR, LF, CR, LF>>), LAMBDA idx : cutAt(buf, idx))

(***************************************************************************)
(* readerFromReq (httpServer.ts:238-266).  fieldGet is a stub that finds   *)
(* no field; parseDec is defined nowhere in the source and is the decimal  *)
(* reading of the design document (section 4.5).                           *)
(***************************************************************************)
fieldGet(headers, key) == NULL

Digit(c) ==
    CASE c = "0" -> 0 [] c = "1" -> 1 [] c = "2" -> 2 [] c = "3" -> 3
      [] c = "4" -> 4 [] c = "5" -> 5 [] c = "6" -> 6 [] c = "7" -> 7
      [] c = "8" -> 8 [] c = "9" -> 9 [] OTHER -> -1

\* [nan |-> TRUE] stands for NaN
RECURSIVE parseDec(_)
parseDec(s) ==
    IF s = << >> THEN [nan |-> TRUE, val |-> 0]
    ELSE IF Digit(s[Len(s)]) < 0 THEN [nan |-> TRUE, val |-> 0]
    ELSE IF Len(s) = 1 THEN [nan |-> FALSE, val |-> Digit(s[1])]
    ELSE LET hi == parseDec(SubSeq(s, 1, Len(s) - 1))
         IN  IF hi.nan THEN hi
             ELSE [nan |-> FALSE, val |-> hi.val * 10 + Digit(s[Len(s)])]

\* httpServer.ts:247-265, parsed being the Content-Length read at 239-246
readerOf(req, parsed, bodyAllowed, chunked) ==
    IF parsed.nan THEN Thrown(HTTPError(400, "bad Content-Length"))
    ELSE IF ~bodyAllowed /\ (parsed.val > 0 \/ chunked)
    THEN Thrown(HTTPError(400, "HTTP body not allowed"))
    ELSE IF ~bodyAllowed THEN [kind |-> "reader", remain |-> 0]
    ELSE IF parsed.val >= 0 THEN [kind |-> "reader", remain |-> parsed.val]
    ELSE Thrown(HTTPError(501, "TODO"))

\* the declared length of the request body, or the error readerFromReq throws
readerFromReq(req) ==
    LET contentLen == fieldGet(req.headers, "Content-Length")
        te         == fieldGet(req.headers, "Transfer-Encoding")
    IN  readerOf(req,
                 IF contentLen # NULL THEN parseDec(contentLen)
                 ELSE [nan |-> FALSE, val |-> -1],
                 ~(req.method = GET \/ req.method = HEAD),
                 te # NULL /\ te = <<"c", "h", "u", "n", "k", "e", "d">>)

(***************************************************************************)
(* The state of one HTTP connection.                                       *)
(***************************************************************************)
VARIABLES
    \* the socket (node's net.Socket) and the peer
    handlers,      \* soInit has installed the 'data', 'end', 'error' handlers
    flowing,       \* readableFlowing: "null", "flowing" or "paused"
    sockErr,       \* the socket has emitted 'error' (node then destroys it)
    endEmitted,    \* the socket has emitted 'end'
    destroyed,     \* socket.destroy() has been called by the program
    wire,          \* bytes the peer sent that no 'data' event delivered yet
    peerFin,       \* the peer closes its side after those bytes
    wr,            \* the socket.write whose callback is outstanding, if any
    out,           \* the writes the socket accepted, in order
    \* TCPConn (httpServer.ts:4-16)
    conn,
    \* the connection task newConn/serveClient
    pc,            \* the await the task is suspended at
    aw,            \* the promise it awaits
    buf,           \* serveClient's DynBuf
    msg,           \* the request being served
    remain,        \* the closure variable of readerFromConnLength
    resp,          \* the response being written
    inCatch,       \* the task is inside newConn's catch block
    caller,        \* the loop that called reqBody.read(): "pull" or "drain"
    exc,           \* the exception newConn caught
    \* history
    rx,            \* every byte 'data' events delivered, in order
    framed,        \* the header blocks cutMessage returned, in order
    bodyLens,      \* the declared body length of each framed request
    nHandled,      \* calls of handleReq
    nResp,         \* responses written completely by serveClient
    op,            \* what the last step issued: "read", "write" or "none"
    pendingReads,  \* read promises created and not settled
    assert80,      \* console.assert(!conn.reader) of soRead has failed
    crashed,       \* an event handler threw: the process is gone
    uncaught,      \* an exception left newConn: its promise was rejected
    \* a function called on its own
    ret            \* what it returned or threw

vars == <<handlers, flowing, sockErr, endEmitted, destroyed, wire, peerFin,
          wr, out, conn, pc, aw, buf, msg, remain, resp, inCatch, caller,
          exc, rx, framed, bodyLens, nHandled, nResp, op,
          pendingReads, assert80, crashed, uncaught, ret>>

NoExc == [name |-> "none", message |-> ""]
NoMsg == [method |-> << >>, uri |-> << >>, version |-> << >>, headers |-> << >>]
NoBody == [kind |-> "none", length |-> 0, data |-> << >>, done |-> TRUE]
NoResp == [code |-> 0, headers |-> << >>, body |-> NoBody]
NoRet == [kind |-> "none"]

sockVars == <<sockErr, endEmitted, wire, peerFin, out, rx>>

\* what the task and the event handlers read and write
M == [conn |-> conn, flowing |-> flowing, destroyed |-> destroyed, wr |-> wr,
      pc |-> pc, aw |-> aw, buf |-> buf, msg |-> msg, remain |-> remain,
      resp |-> resp, inCatch |-> inCatch, caller |-> caller, exc |-> exc,
      framed |-> framed, bodyLens |-> bodyLens, nHandled |-> nHandled,
      nResp |-> nResp, op |-> "none",
      pendingReads |-> pendingReads, assert80 |-> assert80,
      crashed |-> crashed, uncaught |-> uncaught, ret |-> ret,
      thrown |-> NoExc]

Run(machine) ==
    \E m \in {machine} :
    /\ conn' = m.conn /\ flowing' = m.flowing /\ destroyed' = m.destroyed
    /\ wr' = m.wr /\ pc' = m.pc /\ aw' = m.aw /\ buf' = m.buf
    /\ msg' = m.msg /\ remain' = m.remain /\ resp' = m.resp
    /\ inCatch' = m.inCatch /\ caller' = m.caller /\ exc' = m.exc
    /\ framed' = m.framed /\ bodyLens' = m.bodyLens
    /\ nHandled' = m.nHandled /\ nResp' = m.nResp /\ op' = m.op
    /\ pendingReads' = m.pendingReads
    /\ assert80' = m.assert80 /\ crashed' = m.crashed
    /\ uncaught' = (m.uncaught \/ m.thrown # NoExc)
    /\ ret' = m.ret

\* promises
Idle == [st |-> "none", val |-> << >>, exc |-> NoExc]
Pending == [st |-> "pending", val |-> << >>, exc |-> NoExc]
Resolved(v) == [st |-> "ok", val |-> v, exc |-> NoExc]
Rejected(e) == [st |-> "err", val |-> << >>, exc |-> e]
Settled == aw.st \in {"ok", "err"}

(***************************************************************************)
(* The promise-based socket API (httpServer.ts:48-112).                    *)
(***************************************************************************)
\* the conn object soInit returns (httpServer.ts:49-51)
soInit == [err |-> NULL, ended |-> FALSE, reader |-> NULL]

\* socket.on('data', ...) of a stream that was never paused starts the flow
OnDataListener(f) == IF f = "paused" THEN "paused" ELSE "flowing"

\* onData without line 58: the settled reader stays registered
onDataKeepsReader(m, data) ==
    IF m.conn.reader = NULL
    THEN [m EXCEPT !.flowing = "paused", !.crashed = TRUE]
    ELSE [m EXCEPT !.flowing = "paused",
                   !.aw = IF @.st = "pending" THEN Resolved(data) ELSE @,
                   !.pendingReads = @ - 1]

\* onData without line 55: the socket keeps flowing
onDataNoPause(m, data) ==
    IF m.conn.reader = NULL
    THEN [m EXCEPT !.crashed = TRUE]
    ELSE [m EXCEPT !.aw = IF @.st = "pending" THEN Resolved(data) ELSE @,
                   !.pendingReads = @ - 1,
                   !.conn.reader = NULL]

\* the 'data' handler (httpServer.ts:52-59); with no reader, line 57 throws
\* a TypeError out of the handler, after line 55 has paused the socket
onData(m, data) ==
    IF m.conn.reader = NULL
    THEN [m EXCEPT !.flowing = "paused", !.crashed = TRUE]
    ELSE [m EXCEPT !.flowing = "paused",
                   !.aw = IF @.st = "pending" THEN Resolved(data) ELSE @,
                   !.pendingReads = @ - 1,
                   !.conn.reader = NULL]

\* onEnd without lines 63-66: the current read is not fulfilled
onEndKeepsRead(m) == [m EXCEPT !.conn.ended = TRUE]

\* onEnd without line 62: the end of the stream is not latched
onEndNoLatch(m) ==
    IF m.conn.reader # NULL
    THEN [m EXCEPT !.aw = IF @.st = "pending" THEN Resolved(<< >>) ELSE @,
                   !.pendingReads = @ - 1,
                   !.conn.reader = NULL]
    ELSE m

\* the 'end' handler (httpServer.ts:60-67)
onEnd(m) ==
    IF m.conn.reader # NULL
    THEN [m EXCEPT !.conn.ended = TRUE,
                   !.aw = IF @.st = "pending" THEN Resolved(<< >>) ELSE @,
                   !.pendingReads = @ - 1,
                   !.conn.reader = NULL]
    ELSE [m EXCEPT !.conn.ended = TRUE]

\* onError without lines 71-74: the current read is not rejected
onErrorKeepsRead(m, err) == [m EXCEPT !.conn.err = err]

\* the 'error' handler (httpServer.ts:68-75)
onError(m, err) ==
    IF m.conn.reader # NULL
    THEN [m EXCEPT !.conn.err = err,
                   !.aw = IF @.st = "pending" THEN Rejected(Error(err)) ELSE @,
                   !.pendingReads = @ - 1,
                   !.conn.reader = NULL]
    ELSE [m EXCEPT !.conn.err = err]

\* soRead without lines 83-86: a latched error is not looked at
soReadNoErr(m) ==
    IF m.conn.ended
    THEN [m EXCEPT !.op = "read",
                   !.assert80 = @ \/ (m.conn.reader # NULL),
                   !.aw = Resolved(<< >>)]
    ELSE [m EXCEPT !.op = "read",
                   !.assert80 = @ \/ (m.conn.reader # NULL),
                   !.conn.reader = "cb",
                   !.flowing = "flowing",
                   !.pendingReads = @ + 1,
                   !.aw = Pending]

\* soRead (httpServer.ts:79-97): the promise it returns is m.aw
soRead(m) ==
    IF m.conn.err # NULL
    THEN [m EXCEPT !.op = "read",
                   !.assert80 = @ \/ (m.conn.reader # NULL),
                   !.aw = Rejected(Error(m.conn.err))]
    ELSE IF m.conn.ended
    THEN [m EXCEPT !.op = "read",
                   !.assert80 = @ \/ (m.conn.reader # NULL),
                   !.aw = Resolved(<< >>)]
    ELSE [m EXCEPT !.op = "read",
                   !.assert80 = @ \/ (m.conn.reader # NULL),
                   !.conn.reader = "cb",
                   !.flowing = "flowing",
                   !.pendingReads = @ + 1,
                   !.aw = Pending]

\* soWrite (httpServer.ts:99-112): hands the data to socket.write
soWrite(m, data) ==
    [m EXCEPT !.wr = <<data>>, !.op = "write", !.aw = Pending]

(***************************************************************************)
(* newConn's catch and finally blocks and writeHTTPResp, up to its first   *)
(* await (httpServer.ts:174-194, 345-353).                                 *)
(***************************************************************************)
\* readerFromMemory (httpServer.ts:329-342)
readerFromMemory(data) ==
    [kind |-> "mem", length |-> Len(data), data |-> data, done |-> FALSE]

\* the BodyReader object readerFromConnLength returns (httpServer.ts:273-276)
readerFromConnLength(n) ==
    [kind |-> "conn", length |-> n, data |-> << >>, done |-> FALSE]

\* encodeHTTPResp is defined nowhere in the source: the response head is
\* kept as its status code and its header fields
encodeHTTPResp(r) == [kind |-> "head", code |-> r.code, headers |-> r.headers]

\* throw e: the exception travels in m.thrown up to newConn
Raise(m, e) == [m EXCEPT !.thrown = e]

\* finally { socket.destroy(); } (httpServer.ts:191-193)
Finally(m) ==
    [m EXCEPT !.destroyed = TRUE, !.pc = "done", !.aw = Idle, !.thrown = NoExc]

\* httpServer.ts:345-353
writeHTTPResp(m) ==
    IF m.resp.body.length # 0
    THEN Raise(m, Error("TODO: chunked encoding"))
    ELSE soWrite([m EXCEPT !.resp.headers =
                               Append(@, "Content-Length: ${resp.body.length}"),
                           !.pc = "wrHead"],
                 encodeHTTPResp([m.resp EXCEPT !.headers =
                               Append(@, "Content-Length: ${resp.body.length}")]))

\* the inner try without its catch: the exception leaves newConn
ignoringRethrows(w) ==
    IF w.thrown # NoExc THEN [Finally(w) EXCEPT !.thrown = w.thrown] ELSE w

\* the inner try of the catch block (httpServer.ts:187-189): an exception of
\* writeHTTPResp is ignored
ignoring(w) == IF w.thrown # NoExc THEN Finally(w) ELSE w

\* the catch block of newConn (httpServer.ts:178-190)
Catch(m, e) ==
    IF e.name = "HTTPError"
    THEN ignoring(writeHTTPResp([m EXCEPT
            !.thrown = NoExc,
            !.inCatch = TRUE,
            !.exc = e,
            !.resp = [code    |-> Prop(e, "code"),
                      headers |-> << >>,
                      body    |-> readerFromMemory(
                                      Bytes(e.message) \o <<LF>>)]]))
    ELSE Finally([m EXCEPT !.exc = e])

\* newConn around the task (httpServer.ts:176-193): where an exception of
\* the step that just ran ends up
newConn(m) ==
    IF m.thrown = NoExc THEN m
    ELSE IF m.inCatch THEN Finally(m)
    ELSE Catch(m, m.thrown)

(***************************************************************************)
(* The BodyReader's read (httpServer.ts:278-303, 333-340).  site is the    *)
(* await that receives the chunk: "pull" (writeHTTPResp, line 356) or      *)
(* "drain" (serveClient, line 170).                                        *)
(***************************************************************************)
\* httpServer.ts:293-302
consume(m, site) ==
    LET n == Min(m.buf.length, m.remain)
    IN  [m EXCEPT !.remain = @ - n,
                  !.aw = Resolved(SubSeq(m.buf.data, 1, n)),
                  !.buf = bufPop(m.buf, n),
                  !.pc = site]

\* connRead without the test of lines 279-282: a drained reader reads on
connReadPastEnd(m, site) ==
    IF m.buf.length = 0
    THEN soRead([m EXCEPT !.pc = "rdBody", !.caller = site])
    ELSE consume(m, site)

\* httpServer.ts:278-292, up to the await of soRead
connRead(m, site) ==
    IF m.remain = 0 THEN [m EXCEPT !.aw = Resolved(<< >>), !.pc = site]
    ELSE IF m.buf.length = 0
    THEN soRead([m EXCEPT !.pc = "rdBody", !.caller = site])
    ELSE consume(m, site)

\* httpServer.ts:333-340
memRead(m, site) ==
    IF m.resp.body.done THEN [m EXCEPT !.aw = Resolved(<< >>), !.pc = site]
    ELSE [m EXCEPT !.aw = Resolved(m.resp.body.data),
                   !.resp.body.done = TRUE,
                   !.pc = site]

\* resp.body.read() (httpServer.ts:356)
bodyRead(m) ==
    IF m.resp.body.kind = "conn" THEN connRead(m, "pull") ELSE memRead(m, "pull")

(***************************************************************************)
(* serveClient (httpServer.ts:141-172), cut at its awaits.                 *)
(***************************************************************************)
\* handleReq (httpServer.ts:308-326)
handleReq(req, body) ==
    [code    |-> 200,
     headers |-> <<"Server: my_first_http_server">>,
     body    |-> IF req.uri = UriEcho THEN body
                 ELSE readerFromMemory(HelloWorld)]

\* httpServer.ts:162-163, rd being what readerFromReq returned or threw
serveMsg(m, rd) ==
    IF rd.kind = "throw" THEN Raise(m, rd.exc)
    ELSE [m EXCEPT !.remain = rd.remain,
                   !.bodyLens = Append(@, rd.remain),
                   !.resp = handleReq(m.msg, readerFromConnLength(rd.remain)),
                   !.nHandled = @ + 1,
                   !.aw = Resolved(<< >>),
                   !.pc = "handle"]

\* httpServer.ts:145-163, cut being what cutMessage returned or threw
serveCut(m, cut) ==
    IF cut.kind = "throw" THEN Raise(m, cut.exc)
    ELSE IF cut.kind = "null" THEN soRead([m EXCEPT !.pc = "rdHdr"])
    ELSE With(readerFromReq(cut.msg),
              LAMBDA rd : serveMsg([m EXCEPT !.buf = cut.buf, !.msg = cut.msg,
                                             !.framed = Append(@, cut.raw)],
                                   rd))

\* from the top of the loop to the next await (httpServer.ts:143-163)
serveLoop(m) == With(cutMessage(m.buf), LAMBDA cut : serveCut(m, cut))

\* afterPush without the clean close of lines 151-153
afterPushNoCleanClose(m, n) ==
    IF n = 0 THEN Raise(m, HTTPError(400, "Unexpected EOF"))
    ELSE serveLoop(m)

\* httpServer.ts:150-158, the data being pushed already
afterPush(m, n) ==
    IF n = 0 /\ m.buf.length = 0 THEN Finally(m)
    ELSE IF n = 0 THEN Raise(m, HTTPError(400, "Unexpected EOF"))
    ELSE serveLoop(m)

\* after the await of soRead (httpServer.ts:148-158)
afterRdHdr(m) ==
    IF m.aw.st = "err" THEN Raise(m, m.aw.exc)
    ELSE With([m EXCEPT !.buf = bufPush(m.buf, m.aw.val)],
              LAMBDA pushed : afterPush(pushed, Len(m.aw.val)))

\* after the await of handleReq (httpServer.ts:163-164)
afterHandle(m) == writeHTTPResp(m)

\* after the await of soWrite of the head (httpServer.ts:353-356)
afterWrHead(m) ==
    IF m.aw.st = "err" THEN Raise(m, m.aw.exc) ELSE bodyRead(m)

\* reuseOrClose without the version test of lines 166-168
reuseAlways(m) == connRead(m, "drain")

\* httpServer.ts:165-170, the response being counted
reuseOrClose(m) ==
    IF m.msg.version = V10 THEN Finally(m) ELSE connRead(m, "drain")

\* writeHTTPResp has returned (httpServer.ts:164-170, 188-193)
afterResp(m) ==
    IF m.inCatch THEN Finally(m)
    ELSE reuseOrClose([m EXCEPT !.nResp = @ + 1])

\* after the await of resp.body.read() (httpServer.ts:356-360)
afterPull(m) ==
    IF m.aw.st = "err" THEN Raise(m, m.aw.exc)
    ELSE IF Len(m.aw.val) = 0 THEN afterResp(m)
    ELSE soWrite([m EXCEPT !.pc = "wrBody"],
                 [kind |-> "body", data |-> m.aw.val])

\* after the await of soWrite of a body chunk (httpServer.ts:360, 355-356)
afterWrBody(m) ==
    IF m.aw.st = "err" THEN Raise(m, m.aw.exc) ELSE bodyRead(m)

\* after the await of reqBody.read() in the drain loop (httpServer.ts:170)
afterDrain(m) ==
    IF m.aw.st = "err" THEN Raise(m, m.aw.exc)
    ELSE IF Len(m.aw.val) > 0 THEN connRead(m, "drain")
    ELSE serveLoop(m)

\* httpServer.ts:288-302, the data being pushed already
afterBodyPush(m, n) ==
    IF n = 0 THEN Raise(m, Error("Unexpected EOF from HTTP body"))
    ELSE consume(m, m.caller)

\* after the await of soRead inside read() (httpServer.ts:285-302)
afterRdBody(m) ==
    IF m.aw.st = "err" THEN Raise(m, m.aw.exc)
    ELSE With([m EXCEPT !.buf = bufPush(m.buf, m.aw.val)],
              LAMBDA pushed : afterBodyPush(pushed, Len(m.aw.val)))

(***************************************************************************)
(* What the peer sends.                                                    *)
(***************************************************************************)
RECURSIVE Lines(_)
Lines(hs) == IF hs = << >> THEN << >> ELSE hs[1] \o CRLF \o Lines(Tail(hs))

\* the bytes of a request head
Req(method, uri, version, hs) ==
    method \o <<SP>> \o uri \o <<SP>> \o HttpSlash \o version \o CRLF
        \o Lines(hs) \o CRLF

Inputs ==
    { << >>,
      Req(GET, UriEcho, V11, << >>),
      Req(GET, UriEcho, V11, << >>) \o Req(HEAD, UriEcho, V11, <<HostX>>),
      Req(GET, UriEcho, V10, << >>) \o Req(GET, UriEcho, V11, << >>),
      Req(GET, UriRoot, V11, << >>),
      Req(POST, UriEcho, V11, <<CLen2>>) \o <<"a", "b">>,
      Req(GET, UriEcho, V11, <<CLen2>>) \o <<"a", "b">>
          \o Req(GET, UriEcho, V11, << >>),
      Req(GET, UriEcho, V11, <<HostBad>>),
      <<"B", "A", "D">> \o CRLF \o CRLF,
      SubSeq(Req(GET, UriEcho, V11, << >>), 1, 7) }

(***************************************************************************)
(* Init: the server has accepted a connection and is about to call         *)
(* newConn.  net.createServer() is called without pauseOnConnect           *)
(* (httpServer.ts:375), so the socket is neither paused nor flowing.       *)
(***************************************************************************)
Init ==
    /\ handlers = FALSE /\ flowing = "null"
    /\ sockErr = FALSE /\ endEmitted = FALSE /\ destroyed = FALSE
    /\ wire \in Inputs /\ peerFin \in BOOLEAN
    /\ wr = << >> /\ out = << >>
    /\ conn = soInit
    /\ pc = "accept" /\ aw = Idle /\ buf = EmptyBuf /\ msg = NoMsg
    /\ remain = 0 /\ resp = NoResp /\ inCatch = FALSE /\ caller = "none"
    /\ exc = NoExc
    /\ rx = << >> /\ framed = << >> /\ bodyLens = << >>
    /\ nHandled = 0 /\ nResp = 0 /\ op = "none"
    /\ pendingReads = 0 /\ assert80 = FALSE /\ crashed = FALSE
    /\ uncaught = FALSE /\ ret = NoRet

(***************************************************************************)
(* The socket's events.                                                    *)
(***************************************************************************)
SocketLive == handlers /\ ~destroyed /\ ~sockErr /\ ~crashed

\* a write has failed on a socket that has not emitted 'error' (the peer is
\* gone; 'end' may or may not have been emitted): the socket emits 'error'
\* with the error of that write before the task's continuation runs
ErrorDue ==
    /\ SocketLive
    /\ pc \in {"wrHead", "wrBody"} /\ wr = << >> /\ aw.st = "err"

\* a 'data' event: a flowing socket delivers the next bytes, any number of
\* those the peer has sent, all of them included
OnData ==
    /\ SocketLive /\ ~endEmitted /\ ~ErrorDue
    /\ flowing = "flowing" /\ wire # << >>
    /\ \E n \in 1..Len(wire) :
        /\ wire' = SubSeq(wire, n + 1, Len(wire))
        /\ rx' = rx \o SubSeq(wire, 1, n)
        /\ Run(With(M, LAMBDA m : onData(m, SubSeq(wire, 1, n))))
    /\ UNCHANGED <<handlers, sockErr, endEmitted, peerFin, out>>

\* the 'end' event: the peer's FIN, once every byte before it was delivered
OnEnd ==
    /\ SocketLive /\ ~endEmitted /\ ~ErrorDue /\ peerFin /\ wire = << >>
    /\ endEmitted' = TRUE
    /\ Run(With(M, onEnd))
    /\ UNCHANGED <<handlers, sockErr, wire, peerFin, out, rx>>

\* an 'error' event: the transport fails (a reset by the peer), or a write
\* has failed and the event carries the error of that write
OnError ==
    /\ SocketLive
    /\ sockErr' = TRUE
    /\ \E err \in {IF ErrorDue THEN aw.exc.message ELSE "ECONNRESET"} :
           Run(With(M, LAMBDA m : onError(m, err)))
    /\ UNCHANGED <<handlers, endEmitted, wire, peerFin, out, rx>>

\* the outstanding write was issued, in the step just taken, on a socket
\* that had already emitted 'error' or was destroyed (no event can come
\* between such a write and its callback)
WriteLate == op = "write" /\ (sockErr \/ destroyed)

\* the errors socket.write can call back with: ERR_STREAM_DESTROYED for a
\* write issued on a socket that has emitted 'error' or was destroyed;
\* none for a write that was in flight when 'error' was emitted; on a
\* socket that has not emitted 'error', the error of the broken connection,
\* EPIPE or ECONNRESET as the transport reports it
WriteErrors ==
    IF WriteLate THEN {"ERR_STREAM_DESTROYED"}
    ELSE IF sockErr \/ destroyed THEN {}
    ELSE {"EPIPE", "ECONNRESET"}

\* the callback of socket.write (httpServer.ts:102-110): without an error
\* (soWrite resolves), also for a write that was in flight when 'error' was
\* emitted, or with one (soWrite rejects); a write can fail on a socket that
\* has not reported anything yet, when the peer has closed its end
WriteCb ==
    /\ wr # << >> /\ ~crashed
    /\ \/ /\ ~WriteLate
          /\ out' = Append(out, wr[1])
          /\ Run([M EXCEPT !.wr = << >>, !.aw = Resolved(<< >>)])
       \/ /\ out' = out
          /\ \E err \in WriteErrors :
                 Run([M EXCEPT !.wr = << >>, !.aw = Rejected(Error(err))])
    /\ UNCHANGED <<handlers, sockErr, endEmitted, wire, peerFin, rx>>

(***************************************************************************)
(* The connection task.                                                    *)
(***************************************************************************)
Resume(site) == pc = site /\ Settled /\ ~crashed /\ ~ErrorDue

\* newConn up to its first await (httpServer.ts:174-177, 141-148)
NewConn ==
    /\ pc = "accept" /\ ~crashed
    /\ handlers' = TRUE
    /\ Run(With(With([M EXCEPT !.conn = soInit,
                                !.flowing = OnDataListener(flowing),
                                !.buf = EmptyBuf], serveLoop), newConn))
    /\ UNCHANGED sockVars

RdHdr == Resume("rdHdr") /\ Run(With(With(M, afterRdHdr), newConn)) /\ UNCHANGED <<handlers, sockVars>>

Handle == Resume("handle") /\ Run(With(With(M, afterHandle), newConn)) /\ UNCHANGED <<handlers, sockVars>>

WrHead == Resume("wrHead") /\ Run(With(With(M, afterWrHead), newConn)) /\ UNCHANGED <<handlers, sockVars>>

Pull == Resume("pull") /\ Run(With(With(M, afterPull), newConn)) /\ UNCHANGED <<handlers, sockVars>>

WrBody == Resume("wrBody") /\ Run(With(With(M, afterWrBody), newConn)) /\ UNCHANGED <<handlers, sockVars>>

Drain == Resume("drain") /\ Run(With(With(M, afterDrain), newConn)) /\ UNCHANGED <<handlers, sockVars>>

\* the steps the task takes once it has been started; WrBody is not one of
\* them, since writeHTTPResp throws at line 346 for every body of non-zero
\* length and a body of length 0 yields no chunk to write at line 360
Task == RdHdr \/ Handle \/ WrHead \/ Pull \/ Drain

Socket == OnData \/ OnEnd \/ OnError \/ WriteCb

Next == NewConn \/ Task \/ Socket

\* one HTTP connection, from its accept on
Spec == Init /\ [][Next]_vars

(***************************************************************************)
(* readerFromConnLength on its own (httpServer.ts:273-305).  readerFromReq *)
(* as written only ever declares length 0 (fieldGet finds no               *)
(* Content-Length), so no connection makes the reader read from the        *)
(* socket; its reads are exercised on a reader constructed directly:       *)
(* readerFromConnLength(conn, buf, n), conn being set up by soInit on a    *)
(* paused socket and buf holding the d bytes received so far, with read()  *)
(* called again and again as the loop of line 170 calls it.  The peer      *)
(* sends k of the n body bytes and, after a whole body, what tail says.    *)
(***************************************************************************)
DigitChar(n) ==
    CASE n = 0 -> "0" [] n = 1 -> "1" [] n = 2 -> "2" [] n = 3 -> "3"
      [] n = 4 -> "4" [] n = 5 -> "5" [] n = 6 -> "6" [] n = 7 -> "7"
      [] n = 8 -> "8" [] OTHER -> "9"

BodyBytes == <<"a", "b", "c", "d", "e", "f", "g", "h", "i">>

Tails == { << >>, Req(GET, UriEcho, V11, << >>) }

Load(m) ==
    /\ conn = m.conn /\ flowing = m.flowing /\ destroyed = m.destroyed
    /\ wr = m.wr /\ pc = m.pc /\ aw = m.aw /\ buf = m.buf
    /\ msg = m.msg /\ remain = m.remain /\ resp = m.resp
    /\ inCatch = m.inCatch /\ caller = m.caller /\ exc = m.exc
    /\ framed = m.framed /\ bodyLens = m.bodyLens
    /\ nHandled = m.nHandled /\ nResp = m.nResp /\ op = m.op
    /\ pendingReads = m.pendingReads
    /\ assert80 = m.assert80 /\ crashed = m.crashed
    /\ uncaught = m.uncaught /\ ret = m.ret

InitBody ==
    \E n \in 0..MaxBody :
    \E k \in 0..n :
    \E tail \in (IF k = n THEN Tails ELSE { << >> }) :
    \E d \in 0..(k + Len(tail)) :
        LET sent == SubSeq(BodyBytes, 1, k) \o tail
            got  == SubSeq(sent, 1, d)
        IN  /\ handlers = TRUE
            /\ sockErr = FALSE /\ endEmitted = FALSE
            /\ wire = SubSeq(sent, d + 1, Len(sent))
            /\ peerFin \in BOOLEAN
            /\ out = << >>
            /\ rx = got
            /\ Load([conn |-> soInit, flowing |-> "paused", destroyed |-> FALSE,
                     wr |-> << >>, pc |-> "call", aw |-> Idle,
                     buf |-> bufPush(EmptyBuf, got), msg |-> NoMsg,
                     remain |-> n, resp |-> NoResp, inCatch |-> FALSE,
                     caller |-> "none", exc |-> NoExc, framed |-> << >>,
                     bodyLens |-> <<n>>, nHandled |-> 0, nResp |-> 0,
                     op |-> "none", pendingReads |-> 0, assert80 |-> FALSE,
                     crashed |-> FALSE, uncaught |-> FALSE, ret |-> NoRet,
                     thrown |-> NoExc])

\* an exception leaves read(): the caller of the reader has it
thrownOut(m) ==
    IF m.thrown = NoExc THEN m
    ELSE [m EXCEPT !.ret = Thrown(m.thrown), !.pc = "returned",
                   !.aw = Idle, !.thrown = NoExc]

\* a call of read() (httpServer.ts:278-292), the one before it having
\* returned a chunk
BodyPull ==
    /\ pc = "call" \/ (pc = "pulled" /\ aw.st = "ok")
    /\ ~crashed
    /\ Run(With(M, LAMBDA m : connRead(m, "pulled")))
    /\ UNCHANGED <<handlers, sockVars>>

\* after the await of soRead inside read() (httpServer.ts:285-302)
RdBody ==
    /\ Resume("rdBody")
    /\ Run(With(With(M, afterRdBody), thrownOut))
    /\ UNCHANGED <<handlers, sockVars>>

NextBody == BodyPull \/ RdBody \/ OnData \/ OnEnd \/ OnError

SpecBody == InitBody /\ [][NextBody]_vars

(***************************************************************************)
(* The line-echo server (server.ts).  Its stream adapter is the one above  *)
(* (server.ts:66-115 repeats httpServer.ts:48-97), but for soWrite, whose  *)
(* body is empty; its DynBuf has a third field, start.                     *)
(***************************************************************************)
MaxFramed == 3

Quit == <<"q", "u", "i", "t", LF>>
EchoPrefix == <<"E", "c", "h", "o", ":", SP>>

EmptyLineBuf == [data |-> << >>, length |-> 0, start |-> 0]

\* Buffer.slice(from, to): a view, both ends clamped to the array
Slice(data, from, to) == SubSeq(data, Min(from, Len(data)) + 1, Min(to, Len(data)))

\* bufPush (server.ts:128-142): start is left alone
lineBufPush(lb, data) ==
    With(bufPush([data |-> lb.data, length |-> lb.length], data),
         LAMBDA b : [data |-> b.data, length |-> b.length, start |-> lb.start])

\* server.ts:195-198: buf.start is idx + 1 already
lineCompact(lb) ==
    IF 2 * lb.start > Len(lb.data)
    THEN [lb EXCEPT !.data = Slice(lb.data, lb.start, lb.start + lb.length),
                     !.start = 0]
    ELSE lb

\* server.ts:182-206, idx being the index of the newline; line 192
\* subtracts idx + 1 - buf.start after line 191 made buf.start idx + 1
lineCutAt(lb, idx) ==
    IF idx < 0 THEN [kind |-> "null"]
    ELSE [kind |-> "msg",
          msg  |-> SubSeq(lb.data, 1, idx + 1),
          buf  |-> lineCompact([lb EXCEPT
                       !.start = idx + 1,
                       !.length = @ - ((idx + 1) - (idx + 1))])]

\* cutMessage (server.ts:178-207)
lineCutMessage(lb) ==
    With(IndexOf(Slice(lb.data, 0, lb.length), <<LF>>),
         LAMBDA idx : lineCutAt(lb, idx))

\* soWrite (server.ts:116-118): the body is empty, the call returns
\* undefined and the await goes on at once; nothing reaches the socket
lineSoWrite(m, data) == [m EXCEPT !.op = "write", !.aw = Resolved(<< >>)]

\* server.ts:162-171, msg being a whole message
lineServeMsg(m, cut) ==
    IF cut.msg = Quit
    THEN lineSoWrite([m EXCEPT !.buf = cut.buf, !.pc = "bye",
                               !.framed = Append(@, cut.msg)],
                     <<"B", "y", "e", LF>>)
    ELSE lineSoWrite([m EXCEPT !.buf = cut.buf, !.pc = "echo",
                               !.framed = Append(@, cut.msg)],
                     EchoPrefix \o cut.msg)

\* server.ts:149-153, cut being what cutMessage returned
lineServeCut(m, cut) ==
    IF cut.kind = "null" THEN soRead([m EXCEPT !.pc = "rdLine"])
    ELSE lineServeMsg(m, cut)

\* from the top of the loop to the next await (server.ts:149-171)
lineServeLoop(m) == With(lineCutMessage(m.buf), LAMBDA cut : lineServeCut(m, cut))

\* server.ts:154-160, the data being pushed already
lineAfterPush(m, n) == IF n = 0 THEN Finally(m) ELSE lineServeLoop(m)

\* after the await of soRead (server.ts:153-160)
lineAfterRead(m) ==
    IF m.aw.st = "err" THEN Raise(m, m.aw.exc)
    ELSE With([m EXCEPT !.buf = lineBufPush(m.buf, m.aw.val)],
              LAMBDA pushed : lineAfterPush(pushed, Len(m.aw.val)))

\* newConn (server.ts:3-13): the exception is logged, the socket destroyed
lineNewConn(m) ==
    IF m.thrown = NoExc THEN m ELSE Finally([m EXCEPT !.exc = m.thrown])

LineInputs ==
    { << >>,
      <<"P", "I", "N", "G", LF>>,
      <<"a", LF, "b", LF>>,
      Quit \o <<"x", LF>>,
      <<"h", "i">>,
      <<"0", "1", "2", "3", "4", "5", "6", "7", "8", "9",
        "0", "1", "2", "3", "4", "5", LF, "z", LF>> }

\* the server has accepted a connection; pauseOnConnect (server.ts:16)
\* hands the socket over paused
InitLine ==
    /\ handlers = FALSE /\ flowing = "paused"
    /\ sockErr = FALSE /\ endEmitted = FALSE /\ destroyed = FALSE
    /\ wire \in LineInputs /\ peerFin \in BOOLEAN
    /\ wr = << >> /\ out = << >>
    /\ conn = soInit
    /\ pc = "accept" /\ aw = Idle /\ buf = EmptyLineBuf /\ msg = NoMsg
    /\ remain = 0 /\ resp = NoResp /\ inCatch = FALSE /\ caller = "none"
    /\ exc = NoExc
    /\ rx = << >> /\ framed = << >> /\ bodyLens = << >>
    /\ nHandled = 0 /\ nResp = 0 /\ op = "none"
    /\ pendingReads = 0 /\ assert80 = FALSE /\ crashed = FALSE
    /\ uncaught = FALSE /\ ret = NoRet

\* newConn up to its first await (server.ts:3-7, 144-153)
LineConn ==
    /\ pc = "accept" /\ ~crashed
    /\ handlers' = TRUE
    /\ Run(With(With([M EXCEPT !.conn = soInit,
                                !.flowing = OnDataListener(flowing)],
                      lineServeLoop), lineNewConn))
    /\ UNCHANGED sockVars

RdLine ==
    /\ Resume("rdLine")
    /\ Run(With(With(M, lineAfterRead), lineNewConn))
    /\ UNCHANGED <<handlers, sockVars>>

\* after the await of soWrite of the reply (server.ts:169, 149)
Echo ==
    /\ Resume("echo") /\ Len(framed) < MaxFramed
    /\ Run(With(With(M, lineServeLoop), lineNewConn))
    /\ UNCHANGED <<handlers, sockVars>>

\* after the await of soWrite of 'Bye' (server.ts:163-165)
Bye ==
    /\ Resume("bye")
    /\ Run(With(With(M, Finally), lineNewConn))
    /\ UNCHANGED <<handlers, sockVars>>

NextLine == LineConn \/ RdLine \/ Echo \/ Bye \/ OnData \/ OnEnd \/ OnError

\* one connection of the line-echo server
SpecLine == InitLine /\ [][NextLine]_vars

(***************************************************************************)
(* Functions called on their own.  The state is the one of a connection    *)
(* on which nothing has happened yet (Bench), but for the argument, which  *)
(* Init draws; the call leaves what it returned or threw in ret.           *)
(***************************************************************************)
Bench ==
    [conn |-> soInit, flowing |-> "paused", destroyed |-> FALSE, wr |-> << >>,
     pc |-> "call", aw |-> Idle, buf |-> EmptyBuf, msg |-> NoMsg,
     remain |-> 0, resp |-> NoResp, inCatch |-> FALSE, caller |-> "none",
     exc |-> NoExc, framed |-> << >>, bodyLens |-> << >>, nHandled |-> 0,
     nResp |-> 0, op |-> "none", pendingReads |-> 0, assert80 |-> FALSE,
     crashed |-> FALSE, uncaught |-> FALSE, ret |-> NoRet, thrown |-> NoExc]

NoSocket ==
    /\ handlers = FALSE /\ sockErr = FALSE /\ endEmitted = FALSE
    /\ wire = << >> /\ peerFin = FALSE /\ out = << >>

\* n bytes f
Fill(f, n) == [i \in 1..n |-> f]

(***************************************************************************)
(* cutMessage (httpServer.ts:200-213) at the limit kMaxHeaderLen.  The     *)
(* buffer holds what serveClient's pushes and pops leave: n filler bytes   *)
(* and an ending were pushed, k bytes popped from the front (the bytes     *)
(* past buf.length are then stale copies of the last k).  rx is the        *)
(* unread content.                                                         *)
(***************************************************************************)
\* how far around the limit the lengths go
CutSlack == 2

CutLens ==
    (0..CutSlack) \cup
    ((kMaxHeaderLen - Len(<<CR, LF, CR>>) - CutSlack)..(kMaxHeaderLen + CutSlack))

Endings == { << >>, <<CR, LF, CR>>, <<CR, LF, CR, LF>> }

InitCut ==
    \E n \in CutLens :
    \E f \in {"x", CR} :
    \E e \in Endings :
    \E k \in 0..Min(CutSlack, n) :
        /\ NoSocket
        /\ rx = SubSeq(Fill(f, n) \o e, k + 1, n + Len(e))
        /\ Load([Bench EXCEPT
                    !.buf = bufPop(bufPush(EmptyBuf, Fill(f, n) \o e), k)])

\* const msg = cutMessage(buf), with what it leaves of the buffer
CutCall ==
    /\ pc = "call"
    /\ Run(With(cutMessage(buf),
                LAMBDA r : [M EXCEPT !.pc = "returned", !.ret = r,
                                     !.buf = IF r.kind = "msg" THEN r.buf
                                             ELSE @]))
    /\ UNCHANGED <<handlers, sockVars>>

SpecCut == InitCut /\ [][CutCall]_vars

(***************************************************************************)
(* readerFromReq on its own (httpServer.ts:238-266): the request is one    *)
(* that cutMessage framed and parsed, then the reader it returns is pulled *)
(* once.                                                                   *)
(***************************************************************************)
CLen0 == <<"C", "o", "n", "t", "e", "n", "t", "-", "L", "e", "n", "g", "t", "h", ":", SP, "0">>
TEChunked == <<"T", "r", "a", "n", "s", "f", "e", "r", "-", "E", "n", "c", "o", "d", "i", "n", "g", ":",
               SP, "c", "h", "u", "n", "k", "e", "d">>

ReqHeaders ==
    { << >>, <<HostX>>, <<CLen2>>, <<CLen0>>, <<TEChunked>>,
      <<HostX, CLen2>>, <<CLen2, TEChunked>>, <<HostX, TEChunked>> }

InitReq ==
    \E method \in {GET, HEAD, POST} : \E uri \in {UriEcho, UriRoot} :
    \E version \in {V10, V11} : \E hs \in ReqHeaders :
    \E cut \in { cutMessage(bufPush(EmptyBuf, Req(method, uri, version, hs))) } :
        /\ NoSocket /\ rx = Req(method, uri, version, hs)
        /\ Load([Bench EXCEPT !.buf = cut.buf, !.msg = cut.msg,
                               !.framed = <<cut.raw>>])

ReqCall ==
    /\ pc = "call"
    /\ Run(With(readerFromReq(msg),
                LAMBDA r : [M EXCEPT !.pc = "returned", !.ret = r,
                                     !.remain = IF r.kind = "reader" THEN r.remain ELSE @]))
    /\ UNCHANGED <<handlers, sockVars>>

\* the first read() of the reader readerFromReq returned
ReqPull ==
    /\ pc = "returned" /\ ret.kind = "reader"
    /\ Run(connRead(M, "pulled"))
    /\ UNCHANGED <<handlers, sockVars>>

SpecReq == InitReq /\ [][ReqCall \/ ReqPull]_vars

(***************************************************************************)
(* bufPush and bufPop on their own (httpServer.ts:116-139): any sequence   *)
(* of pushes and of pops of at most the unread length.  rx is every byte   *)
(* pushed so far and framed the prefixes popped.                           *)
(***************************************************************************)
MaxPushed == 70
MaxPops == 2
PushLens == {0, 3, 20, 40}

\* n bytes that differ from their neighbours, continuing after off bytes
Pattern(off, n) == [i \in 1..n |-> DigitChar((off + i) % 10)]

PopLens(len) == {0, 1, len \div 2, len} \cap (0..len)

InitBuf == NoSocket /\ rx = << >> /\ Load([Bench EXCEPT !.pc = "buf"])

BufPush ==
    \E n \in PushLens : \E data \in {Pattern(Len(rx), n)} :
        /\ pc = "buf" /\ Len(rx) + n <= MaxPushed
        /\ rx' = rx \o data
        /\ Run(With(bufPush(buf, data), LAMBDA b : [M EXCEPT !.buf = b, !.op = "push"]))
        /\ UNCHANGED <<handlers, sockErr, endEmitted, wire, peerFin, out>>

BufPop ==
    \E n \in PopLens(buf.length) :
        /\ pc = "buf" /\ Len(framed) < MaxPops
        /\ Run(With(bufPop(buf, n),
                    LAMBDA b : [M EXCEPT !.framed = Append(@, SubSeq(buf.data, 1, n)),
                                         !.buf = b, !.op = "pop"]))
        /\ UNCHANGED <<handlers, sockVars>>

SpecBuf == InitBuf /\ [][BufPush \/ BufPop]_vars

(***************************************************************************)
(* Properties of the HTTP connection.                                      *)
(***************************************************************************)
RECURSIVE SumLen(_)
SumLen(ss) == IF ss = << >> THEN 0 ELSE Len(ss[1]) + SumLen(Tail(ss))

RECURSIVE Sum(_)
Sum(ns) == IF ns = << >> THEN 0 ELSE ns[1] + Sum(Tail(ns))

\* C1: soRead is never called while a read is registered (the assertion of
\* line 80 never fails), and at most one read promise is unsettled, on
\* header reads, body-reader reads and the drain loop alike.
C1_SingleOutstandingRead ==
    /\ ~assert80
    /\ pendingReads <= 1
    /\ (pendingReads = 1) = (conn.reader # NULL)

\* a header read is pending on a reused connection, after a response and
\* the drain loop
C1_Witness ==
    /\ pc = "rdHdr" /\ conn.reader # NULL /\ pendingReads = 1
    /\ nResp > 0 /\ Len(out) > 0 /\ Len(rx) >= Len(framed[1])

\* C2 as stated: from the accept on, whenever no read is pending the
\* socket is paused.
C2_PausedWheneverIdle == conn.reader = NULL => flowing = "paused"

\* C2, amended: no 'data' event is delivered while conn.reader is null (the
\* handler's reader is never missing), and while the stream has neither
\* ended nor failed, the socket is not flowing whenever no read is pending.
C2_NoDataWhileIdle ==
    /\ ~crashed
    /\ (conn.reader = NULL /\ ~conn.ended /\ conn.err = NULL)
            => flowing # "flowing"

\* bytes of the peer wait while the task, between two reads, holds the
\* socket paused
C2_Witness ==
    /\ handlers /\ conn.reader = NULL /\ flowing = "paused"
    /\ wire # << >> /\ rx # << >> /\ pc = "wrHead"

(***************************************************************************)
(* Scheduling: a continuation whose promise has settled is run by the      *)
(* microtask queue; the socket calls back every write it was handed (the   *)
(* writes of these connections are at most two response heads, which the   *)
(* kernel accepts whether or not the peer reads); a socket emits 'error'   *)
(* after a write it has failed.  Nothing in the file calls newConn         *)
(* (httpServer.ts:375 registers no listener), so no fairness on NewConn.   *)
(***************************************************************************)
LiveSpec ==
    /\ Spec
    /\ WF_vars(Task)
    /\ WF_vars(WriteCb)
    /\ WF_vars(ErrorDue /\ OnError)

\* C3: once the socket has reported an error or the end of the stream, or
\* has failed a write, the pending read or write is settled and the
\* connection task runs to its end: it is not left suspended.
C3_DeadTransportUnblocks ==
    (handlers /\ (sockErr \/ endEmitted \/ ErrorDue))
        ~> (pc = "done" /\ aw.st # "pending")

\* the task has ended after the write of a response head failed on a
\* socket whose peer was gone
C3_Witness ==
    /\ pc = "done" /\ sockErr /\ ~endEmitted /\ nHandled = 1 /\ out = << >>
    /\ conn.err = "EPIPE" /\ exc = Error("EPIPE")

\* C4 but for writes: an 'error' event rejects the pending read at once;
\* with no read pending it is latched in conn.err, and the next soRead is
\* rejected with it.  A soWrite issued with the error latched is rejected
\* too, with the error of the socket's write callback; a write outstanding
\* when the error arrives is left to that callback.
C4_ErrorsDelivered ==
    [][ /\ (sockErr' /\ ~sockErr /\ conn.reader # NULL)
            => (aw' = Rejected(Error(conn'.err)) /\ conn'.reader = NULL)
        /\ (sockErr' /\ ~sockErr /\ conn.reader = NULL)
            => (conn'.err # NULL /\ aw' = aw /\ wr' = wr)
        /\ (op' = "read" /\ conn.err # NULL)
            => (aw' = Rejected(Error(conn.err)) /\ conn'.reader = NULL)
        /\ (op = "write" /\ wr # << >> /\ wr' = << >> /\ conn.err # NULL)
            => aw'.st = "err" ]_vars

\* C4 as stated: the next soWrite, too, fails with the latched error.
C4_WriteFailsWithLatchedError ==
    [][ (op = "write" /\ wr # << >> /\ wr' = << >> /\ conn.err # NULL)
            => aw' = Rejected(Error(conn.err)) ]_vars

\* a soRead issued with an error latched has been rejected
C4_Witness ==
    /\ op = "read" /\ conn.err # NULL /\ aw = Rejected(Error(conn.err))
    /\ rx # << >>

\* C5, for reads issued while no error is latched: 'end' resolves the
\* pending read with an empty chunk and is latched; a later soRead is
\* resolved at once with an empty chunk and registers no reader.
C5_EndIsEmptyRead ==
    [][ /\ (endEmitted' /\ ~endEmitted)
            => /\ conn'.ended /\ conn'.reader = NULL
               /\ aw' = IF conn.reader # NULL THEN Resolved(<< >>) ELSE aw
        /\ (op' = "read" /\ conn.ended /\ conn.err = NULL)
            => /\ aw' = Resolved(<< >>) /\ conn'.reader = NULL
               /\ pendingReads' = pendingReads ]_vars

\* C5 as stated: every soRead after 'end' resolves with an empty chunk.
C5_EveryLaterReadIsEmpty ==
    [][ (op' = "read" /\ conn.ended) => aw' = Resolved(<< >>) ]_vars

\* a soRead issued after 'end' was latched has resolved with an empty chunk
C5_Witness ==
    /\ op = "read" /\ conn.ended /\ conn.err = NULL
    /\ aw = Resolved(<< >>) /\ conn.reader = NULL /\ pc = "rdHdr"

\* C6: once the task has finished, the socket is destroyed, and no
\* exception has left newConn.
C6_AlwaysDestroyed ==
    /\ pc = "done" => destroyed
    /\ ~uncaught

\* the task has finished after writing the error response failed
C6_Witness ==
    /\ pc = "done" /\ destroyed /\ inCatch /\ exc.name = "HTTPError"

\* C7: when the task has ended on an HTTPError and the stream stayed
\* writable, a response head with the error's status code was written.
C7_ErrorResponseWritten ==
    (pc = "done" /\ exc.name = "HTTPError" /\ ~sockErr /\ ~endEmitted)
        => \E i \in 1..Len(out) :
               out[i].kind = "head" /\ out[i].code = exc.statusCode

\* C8: the step of the task that receives an end-of-stream read while
\* awaiting a message ends it cleanly (no exception, nothing written) when
\* the buffer is empty, and raises HTTPError 400 'Unexpected EOF' when the
\* buffer holds bytes.
C8_EofWhileAwaiting ==
    [][ (pc = "rdHdr" /\ aw.st = "ok" /\ aw.val = << >> /\ pc' # "rdHdr")
            => IF buf.length = 0
               THEN /\ pc' = "done" /\ exc' = NoExc /\ ~inCatch'
                    /\ out' = out /\ wr' = << >>
               ELSE /\ exc' = HTTPError(400, "Unexpected EOF")
                    /\ inCatch' ]_vars

\* the task has ended on 'Unexpected EOF' with a partial head in the buffer
C8_Witness ==
    /\ pc = "done" /\ exc = HTTPError(400, "Unexpected EOF")
    /\ buf.length > 0 /\ conn.ended

\* the bytes of the body that followed the j-th framed message
BodyLenOf(j) == IF j <= Len(bodyLens) THEN bodyLens[j] ELSE 0

\* where in the received stream the i-th message has to begin
RECURSIVE OffsetOf(_)
OffsetOf(i) ==
    IF i <= 1 THEN 0
    ELSE OffsetOf(i - 1) + Len(framed[i - 1]) + BodyLenOf(i - 1)

\* C9: the messages the driver has framed are, in order, the successive
\* messages of the received byte stream: each begins where the one before
\* it (and its body) ended, so none is skipped and none is taken twice.
C9_EachMessageOnceInOrder ==
    \A i \in 1..Len(framed) :
        /\ OffsetOf(i) + Len(framed[i]) <= Len(rx)
        /\ framed[i] = SubSeq(rx, OffsetOf(i) + 1, OffsetOf(i) + Len(framed[i]))

\* the name of the field that declares the length of a body
CLenName ==
    <<"C", "o", "n", "t", "e", "n", "t", "-", "L", "e", "n", "g", "t", "h", ":", SP>>

\* where name begins in head, from position i on; 0 when it does not occur
RECURSIVE FieldAt(_, _, _)
FieldAt(head, name, i) ==
    IF i + Len(name) - 1 > Len(head) THEN 0
    ELSE IF SubSeq(head, i, i + Len(name) - 1) = name THEN i
    ELSE FieldAt(head, name, i + 1)

\* the decimal digits of head from position i on
RECURSIVE DigitsFrom(_, _)
DigitsFrom(head, i) ==
    IF i > Len(head) \/ Digit(head[i]) < 0 THEN << >>
    ELSE <<head[i]>> \o DigitsFrom(head, i + 1)

\* the length of the body a framed head declares (0 without Content-Length)
DeclaredLen(head) ==
    LET i == FieldAt(head, CLenName, 1)
        d == parseDec(DigitsFrom(head, i + Len(CLenName)))
    IN  IF i = 0 \/ d.nan THEN 0 ELSE d.val

RECURSIVE SumDeclared(_)
SumDeclared(heads) ==
    IF heads = << >> THEN 0
    ELSE DeclaredLen(heads[1]) + SumDeclared(Tail(heads))

\* C10: when the drain loop is about to return to cutMessage (its read
\* returned an empty chunk), the body reader is exhausted and the unread
\* bytes of the buffer are exactly the bytes received after the head and
\* the declared body of every request framed so far.
C10_DrainedToBoundary ==
    (pc = "drain" /\ aw.st = "ok" /\ aw.val = << >>)
        => /\ remain = 0
           /\ SumLen(framed) + SumDeclared(framed) <= Len(rx)
           /\ Unread(buf) = SubSeq(rx, SumLen(framed) + SumDeclared(framed) + 1,
                                   Len(rx))

\* C11: the step of the task that finds the response written (the pull of
\* the response body returned empty, outside the catch block) ends
\* serveClient cleanly and closes the connection when the request's version
\* is 1.0, and for every other version goes on to the drain loop on the
\* same, undestroyed connection; the drain loop's empty read leads to the
\* next cutMessage (a new read for a head, a next request, or its error).
C11_CloseIffVersion10 ==
    [][ /\ (pc = "pull" /\ aw.st = "ok" /\ aw.val = << >> /\ ~inCatch
             /\ pc' # pc)
            => IF msg.version = V10
               THEN pc' = "done" /\ destroyed' /\ exc' = NoExc
                    /\ framed' = framed
               ELSE pc' \in {"drain", "rdBody"} /\ ~destroyed'
                    /\ nResp' = nResp + 1
        /\ (pc = "drain" /\ aw.st = "ok" /\ aw.val = << >> /\ pc' # pc)
            => \/ pc' = "rdHdr" /\ ~destroyed'
               \/ pc' = "handle" /\ Len(framed') = Len(framed) + 1
               \/ pc' = "done" /\ exc' # NoExc ]_vars

\* a 1.0 request was answered and the connection closed with a pipelined
\* request left in the buffer
C11_Witness ==
    /\ pc = "done" /\ destroyed /\ exc = NoExc /\ msg.version = V10
    /\ Len(out) = 1 /\ Len(framed) = 1 /\ buf.length > 0

\* the unread content holds no CRLFCRLF
NoTerminator(s) ==
    \A i \in 1..(Len(s) - 3) :
        ~(s[i] = CR /\ s[i + 1] = LF /\ s[i + 2] = CR /\ s[i + 3] = LF)

\* C12: on a buffer whose unread content holds no CRLFCRLF, cutMessage
\* throws HTTPError 413 when the unread length is kMaxHeaderLen or more,
\* and returns null, leaving the buffer as it was, when it is less.
C12_HeaderLimit ==
    [][ (pc = "call" /\ pc' = "returned" /\ NoTerminator(rx))
            => IF Len(rx) >= kMaxHeaderLen
               THEN ret' = Thrown(HTTPError(413, "header is too large"))
               ELSE ret' = [kind |-> "null"] /\ buf' = buf ]_vars

\* both sides of the limit: cutMessage threw on exactly kMaxHeaderLen
\* unread bytes without a terminator
C12_Witness ==
    /\ pc = "returned" /\ Len(rx) = kMaxHeaderLen /\ NoTerminator(rx)
    /\ ret.kind = "throw" /\ ret.exc.statusCode = 413

\* how many bytes of the body the reader has returned
BodyDone == bodyLens[1] - remain

\* C13: every chunk the known-length reader returns is the next piece of
\* the body as it was received, empty only once all n declared bytes were
\* returned; the reader asks the socket for bytes only while body bytes
\* are outstanding and the buffer is empty, and whatever was received
\* past the bytes it returned is still unread in the buffer.
C13_BodyReaderExact ==
    /\ pc = "rdBody" => remain > 0 /\ buf.length = 0
    /\ (pc = "pulled" /\ aw.st = "ok")
        => /\ remain >= 0 /\ BodyDone >= Len(aw.val)
           /\ BodyDone <= Len(rx)
           /\ aw.val = SubSeq(rx, BodyDone - Len(aw.val) + 1, BodyDone)
           /\ aw.val = << >> => remain = 0
           /\ Unread(buf) = SubSeq(rx, BodyDone + 1, Len(rx))

\* the last piece of a body that came in several deliveries has been
\* returned while bytes of the next request wait in the buffer
C13_Witness ==
    /\ pc = "pulled" /\ aw.st = "ok" /\ aw.val # << >> /\ remain = 0
    /\ Len(aw.val) < bodyLens[1] /\ buf.length > 0

\* the request carries a field of this name (with its colon)
RECURSIVE HasField(_, _)
HasField(headers, name) ==
    /\ headers # << >>
    /\ \/ (Len(headers[1]) >= Len(name) /\ SubSeq(headers[1], 1, Len(name)) = name)
       \/ HasField(Tail(headers), name)

\* C14: for a GET or HEAD request readerFromReq throws a 4xx HTTPError
\* when the request has a Content-Length field or Transfer-Encoding:
\* chunked, and otherwise returns a reader of length 0 whose first pull
\* is empty.
C14_NoBodyForGetHead ==
    (pc \in {"returned", "pulled"} /\ msg.method \in {GET, HEAD})
    => IF \/ HasField(msg.headers, SubSeq(CLen2, 1, 15))
          \/ HasField(msg.headers, TEChunked)
       THEN /\ ret.kind = "throw" /\ ret.exc.name = "HTTPError"
            /\ ret.exc.statusCode \in 400..499
       ELSE /\ ret = [kind |-> "reader", remain |-> 0]
            /\ pc = "pulled" => aw = Resolved(<< >>)

\* 'Content-Length: ' followed by n in decimal, for the body lengths of
\* the responses handleReq builds
ContentLengthField(n) ==
    CASE n = 0 -> "Content-Length: 0"
      [] n = 1 -> "Content-Length: 1"
      [] n = 2 -> "Content-Length: 2"
      [] n = 13 -> "Content-Length: 13"
      [] OTHER -> "Content-Length: ?"

\* the number of body bytes written after the last response head
RECURSIVE BodyBytesWritten(_)
BodyBytesWritten(o) ==
    IF o = << >> \/ o[Len(o)].kind = "head" THEN 0
    ELSE BodyBytesWritten(SubSeq(o, 1, Len(o) - 1)) + Len(o[Len(o)].data)

\* C15: writeHTTPResp, given the handler's response with a body of known
\* length n, does not throw on its own account, writes a head whose last
\* field is Content-Length: n in decimal, and has written exactly n body
\* bytes when it returns.
C15_ContentLengthThenBody ==
    /\ exc # Error("TODO: chunked encoding")
    /\ (pc = "wrHead" /\ ~inCatch)
        => /\ wr # << >> => wr[1].kind = "head"
           /\ resp.headers[Len(resp.headers)] = ContentLengthField(resp.body.length)
    /\ (pc = "drain" /\ ~inCatch /\ nResp > 0)
        => BodyBytesWritten(out) = resp.body.length

\* C16: after any sequence of bufPush and bufPop calls the unread region
\* of the buffer is the concatenation of the bytes pushed without the
\* prefix popped, and a push, growing or not, leaves the bytes that were
\* unread before it in place.
C16_UnreadIsPushedMinusPopped ==
    /\ buf.length = Len(rx) - SumLen(framed)
    /\ buf.length <= Len(buf.data)
    /\ Unread(buf) = SubSeq(rx, SumLen(framed) + 1, Len(rx))

\* the buffer has grown twice, after a pop, and still holds unread bytes
C16_Witness ==
    /\ pc = "buf" /\ op = "push" /\ Len(buf.data) > 2 * kMinCap
    /\ SumLen(framed) > 0 /\ buf.length > kMinCap

Ping == <<"P", "I", "N", "G", LF>>

\* C17: the message the line cutMessage has just returned is the unread
\* bytes up to and including the first newline, and exactly those bytes
\* are gone from the buffer; after "PING\n" the buffer holds 0 unread
\* bytes and a second cutMessage finds no message.
C17_LineCutRemovesMessage ==
    /\ (pc \in {"echo", "bye"} /\ framed # << >>)
        => /\ SumLen(framed) <= Len(rx)
           /\ framed[Len(framed)] =
                  SubSeq(rx, SumLen(framed) - Len(framed[Len(framed)]) + 1,
                         SumLen(framed))
           /\ IndexOf(framed[Len(framed)], <<LF>>) = Len(framed[Len(framed)]) - 1
           /\ buf.length = Len(rx) - SumLen(framed)
    /\ rx = Ping => Len(framed) <= 1

\* C19: the line buffer never claims more bytes than its backing array
\* holds, counted from the front or from start.
C19_LineBufWithinCapacity ==
    /\ buf.length <= Len(buf.data)
    /\ buf.start + buf.length <= Len(buf.data)

\* C18: once 'quit\n' has been framed and the task has ended on a healthy
\* socket, 'Bye\n' is the last thing written to the socket, the socket is
\* destroyed, and quit is the last message framed.
C18_QuitSaysByeAndCloses ==
    ((\E i \in 1..Len(framed) : framed[i] = Quit) /\ pc = "done" /\ ~sockErr)
        => /\ destroyed /\ exc = NoExc
           /\ framed[Len(framed)] = Quit
           /\ out # << >> /\ out[Len(out)] = <<"B", "y", "e", LF>>

\* C20: when the read awaited inside a known-length body reader reports
\* end of stream (an empty chunk) while body bytes are outstanding, the
\* exception read() throws is an HTTPError, one that carries a status
\* code.
C20_EofInBodyIsHTTPError ==
    [][ (pc = "rdBody" /\ aw.st = "ok" /\ aw.val = << >> /\ remain > 0
            /\ pc' # "rdBody")
            => /\ ret'.kind = "throw"
               /\ "statusCode" \in DOMAIN ret'.exc
               /\ ret'.exc.name = "HTTPError" ]_vars

\* a reader is registered exactly while one read promise is unsettled
ReaderIsThePendingRead ==
    /\ pendingReads \in 0..1
    /\ (conn.reader # NULL) = (pendingReads = 1)
    /\ conn.reader # NULL => (aw.st = "pending" /\ op = "read")

\* C21: a reader is registered only on a live stream (conn.ended false,
\* conn.err null) and stands for exactly one unsettled read; every 'end'
\* and every 'error' event leaves conn.reader null; and the step that
\* clears the reader settles that read, once: the promise goes from
\* pending to settled and the count of unsettled reads from 1 to 0.
C21_ReaderOnlyOnLiveStream ==
    /\ [](conn.reader # NULL => (~conn.ended /\ conn.err = NULL))
    /\ []ReaderIsThePendingRead
    /\ [][ /\ ((endEmitted' /\ ~endEmitted) \/ (sockErr' /\ ~sockErr))
               => conn'.reader = NULL
           /\ (conn.reader # NULL /\ conn'.reader = NULL)
               => /\ aw.st = "pending" /\ aw'.st \in {"ok", "err"}
                  /\ pendingReads = 1 /\ pendingReads' = 0 ]_vars

\* the stream ended in the middle of a header block: the read was
\* resolved with an empty chunk and no reader is left
C21_Witness ==
    /\ pc = "rdHdr" /\ conn.ended /\ conn.err = NULL /\ conn.reader = NULL
    /\ aw = Resolved(<< >>) /\ pendingReads = 0 /\ rx # << >> /\ buf.length > 0

=============================================================================
